---------------------------- MODULE Spec2Model ----------------------------
(***************************************************************************)
(* A model of src/btc_markets_fetcher.py: the two fetchers, the fee        *)
(* functions and find_arbitrage_opportunities (key normalisation, the      *)
(* match test, the evaluation of both hedge directions, the threshold and  *)
(* the final sort), and save_to_json with the file it appends to.          *)
(*                                                                         *)
(* Text is a sequence of one-character strings.  An optional value is a    *)
(* sequence of length at most one: None is <<>>, a present value v is      *)
(* <<v>>.  Amounts of money are integers in units of 1/Scale cent, which   *)
(* represents every price and fee of the model's inputs exactly (the code   *)
(* computes them in binary floating point).  A Polymarket price, a decimal *)
(* in [0,1], is held in hundredths.  profit_pct is the exact fraction      *)
(* [n, d] = n/d.  Where a property rests on the rounding of the floats,    *)
(* the binary64 arithmetic itself is modelled, bit for bit                 *)
(* (calculate_kalshi_fee_binary64).                                        *)
(***************************************************************************)
EXTENDS Integers, Sequences, FiniteSets, TLC

VARIABLES
    pc,              \* "idle", then "done", "fetched", "matched" or "priced"
    kalshi_api,      \* what the Kalshi endpoints serve
    poly_api,        \* what the Polymarket /events endpoint serves
    args,            \* the arguments of the find_arbitrage_opportunities call
    kalshi_markets,  \* fetch_kalshi_btc_markets() as returned
    poly_markets,    \* fetch_polymarket_btc_markets() as returned
    pairs,           \* the (ticker, market_id) pairs the loops reached, in order
    order,           \* order[i]: the place opportunities[i] was appended at
    opportunities,   \* the list find_arbitrage_opportunities returns
    outcome,         \* "none" | "returned" | "ValueError" | "TypeError"
    x_title,         \* a Kalshi title and
    y_title,         \*   a Polymarket event title given to the match test
    m_xy,            \* the match test on (x, y)
    m_yx,            \* the match test on (y, x)
    price_cents,     \* a Kalshi price given to calculate_kalshi_fee
    fee,             \* calculate_kalshi_fee(price_cents), a float
    fee_mirror,      \* calculate_kalshi_fee(100 - price_cents), a float
    file,            \* the file save_to_json is given: [exists, text]
    file0,           \* that file before the first call
    saved            \* the lists save_to_json was called with, in call order

feeVars == <<price_cents, fee, fee_mirror>>

saveVars == <<file, file0, saved>>

vars == <<pc, kalshi_api, poly_api, args, kalshi_markets, poly_markets, pairs,
          order, opportunities, outcome, x_title, y_title, m_xy, m_yx, feeVars,
          saveVars>>

-----------------------------------------------------------------------------
(* Bounds of the model *)

MaxKalshi == 2      \* Kalshi markets served
MaxPoly == 2        \* Polymarket markets served, over all events
MaxPrices == 2      \* elements of one outcomePrices sequence
MaxKeyLen == 3      \* characters of a title given to the match test
MaxSaves == 3       \* calls of save_to_json on the file

-----------------------------------------------------------------------------
(* Optional values *)

None == <<>>

Some(v) == <<v>>

Val(o) == o[1]

\* Python truthiness of a price: None, 0 and 0.0 are falsy
Truthy(o) == o # None /\ Val(o) # 0

-----------------------------------------------------------------------------
(* Sequences *)

RECURSIVE Concat(_)
Concat(ss) == IF ss = <<>> THEN <<>> ELSE Head(ss) \o Concat(Tail(ss))

SeqsUpTo(S, n) == UNION {[1..k -> S] : k \in 0..n}

Range(s) == {s[i] : i \in 1..Len(s)}

-----------------------------------------------------------------------------
(* Text: str.lower, str.upper, str.strip, str.split, the in operator *)

LowerChar(c) ==
    CASE c = "A" -> "a" [] c = "B" -> "b" [] c = "C" -> "c" [] c = "E" -> "e"
      [] c = "H" -> "h" [] c = "I" -> "i" [] c = "N" -> "n" [] c = "O" -> "o"
      [] c = "P" -> "p" [] c = "T" -> "t" [] c = "U" -> "u"
      [] OTHER -> c

UpperChar(c) ==
    CASE c = "a" -> "A" [] c = "b" -> "B" [] c = "c" -> "C" [] c = "e" -> "E"
      [] c = "h" -> "H" [] c = "i" -> "I" [] c = "n" -> "N" [] c = "o" -> "O"
      [] c = "p" -> "P" [] c = "t" -> "T" [] c = "u" -> "U"
      [] OTHER -> c

Lower(s) == [i \in 1..Len(s) |-> LowerChar(s[i])]

Upper(s) == [i \in 1..Len(s) |-> UpperChar(s[i])]

IsSpace(c) == c = " "

RECURSIVE LStrip(_)
LStrip(s) == IF s # <<>> /\ IsSpace(Head(s)) THEN LStrip(Tail(s)) ELSE s

RECURSIVE RStrip(_)
RStrip(s) ==
    IF s # <<>> /\ IsSpace(s[Len(s)]) THEN RStrip(SubSeq(s, 1, Len(s) - 1)) ELSE s

Strip(s) == RStrip(LStrip(s))

\* x in y, for two texts
Contains(y, x) ==
    \E i \in 0..(Len(y) - Len(x)) : SubSeq(y, i + 1, i + Len(x)) = x

\* str.split(): the maximal runs of non-space characters, as a list
RECURSIVE SplitFrom(_, _)
SplitFrom(s, word) ==
    IF s = <<>> THEN (IF word = <<>> THEN <<>> ELSE <<word>>)
    ELSE IF IsSpace(Head(s))
         THEN (IF word = <<>> THEN <<>> ELSE <<word>>) \o SplitFrom(Tail(s), <<>>)
         ELSE SplitFrom(Tail(s), Append(word, Head(s)))

Split(s) == SplitFrom(s, <<>>)

\* set(key.split())
Words(key) == Range(Split(key))

\* title.lower().strip()
NormalKey(title) == Strip(Lower(title))

-----------------------------------------------------------------------------
(* The match test of find_arbitrage_opportunities *)

MinSharedWords == 2

MatchNoReverseContains(kalshi_key, poly_key) ==
    \/ Cardinality(Words(kalshi_key) \cap Words(poly_key)) >= MinSharedWords
    \/ Contains(poly_key, kalshi_key)

Match(kalshi_key, poly_key) ==
    \/ Cardinality(Words(kalshi_key) \cap Words(poly_key)) >= MinSharedWords
    \/ Contains(poly_key, kalshi_key)
    \/ Contains(kalshi_key, poly_key)

-----------------------------------------------------------------------------
(* Money and fractions *)

\* units per cent: 1/10000 cent holds 7 * p * (100 - p) / 10000 exactly
Scale == 100 * 100

\* the guaranteed payout of a hedge, in cents
Payout == 100

Frac(n, d) == [n |-> n, d |-> d]

\* a/b < c/d for b, d > 0, by comparing the continued fractions (no product of
\* two large numbers is formed)
RECURSIVE FracLess(_, _, _, _)
FracLess(a, b, c, d) ==
    LET qa == a \div b
        qc == c \div d
        ra == a % b
        rc == c % d
    IN  IF qa # qc THEN qa < qc
        ELSE IF rc = 0 THEN FALSE
        ELSE IF ra = 0 THEN TRUE
        ELSE FracLess(d, rc, b, ra)

\* x >= y for two fractions
GE(x, y) == ~FracLess(x.n, x.d, y.n, y.d)

SameFrac(x, y) == GE(x, y) /\ GE(y, x)

-----------------------------------------------------------------------------
(* Fee models *)

\* calculate_kalshi_fee: 0.07 * p * (1 - p) * 100 with p = price_cents / 100,
\* as the real number it stands for
calculate_kalshi_fee(cents) ==
    (7 * cents * (100 - cents) * Scale) \div (100 * 100)

\* calculate_polymarket_fee: price * 0.001 (US) or price * 0.02 (global)
calculate_polymarket_fee(price, is_us) ==
    IF is_us THEN price \div 1000 ELSE (price * 2) \div 100

-----------------------------------------------------------------------------
(* Binary floating point (IEEE 754 binary64, round to nearest, ties to     *)
(* even), as CPython's float computes `/`, `-` and `*`.  A natural number  *)
(* of any size is a sequence of limbs, least significant first, without    *)
(* leading zero limbs; a float is [m, e] of value m * 2^e with m of        *)
(* exactly Precision bits, or m = <<>> and e = 0 for zero.  Only the       *)
(* non-negative normal range is needed: every value computed by            *)
(* calculate_kalshi_fee on 0..100 is 0 or lies between 2^-7 and 2^7.       *)

Limb == 2 ^ 15

\* significand bits of a Python float
Precision == 53

RECURSIVE BTrim(_)
BTrim(a) ==
    IF a = <<>> THEN a
    ELSE IF a[Len(a)] = 0 THEN BTrim(SubSeq(a, 1, Len(a) - 1)) ELSE a

\* a small natural (below Limb * Limb) as limbs
BFromInt(n) == BTrim(<<n % Limb, n \div Limb>>)

RECURSIVE BAddCarry(_, _, _)
BAddCarry(a, b, carry) ==
    IF a = <<>> /\ b = <<>> THEN (IF carry = 0 THEN <<>> ELSE <<carry>>)
    ELSE LET x == IF a = <<>> THEN 0 ELSE a[1]
             y == IF b = <<>> THEN 0 ELSE b[1]
             t == x + y + carry
         IN  <<t % Limb>> \o BAddCarry(IF a = <<>> THEN a ELSE Tail(a),
                                       IF b = <<>> THEN b ELSE Tail(b),
                                       t \div Limb)

BAdd(a, b) == BAddCarry(a, b, 0)

\* a - b - borrow, for a >= b + borrow
RECURSIVE BSubBorrow(_, _, _)
BSubBorrow(a, b, borrow) ==
    IF a = <<>> THEN <<>>
    ELSE LET y == IF b = <<>> THEN 0 ELSE b[1]
             t == a[1] - y - borrow
         IN  <<t % Limb>> \o BSubBorrow(Tail(a),
                                        IF b = <<>> THEN b ELSE Tail(b),
                                        IF t < 0 THEN 1 ELSE 0)

BSub(a, b) == BTrim(BSubBorrow(a, b, 0))

\* a * k + carry for a limb-sized k
RECURSIVE BMulSmall(_, _, _)
BMulSmall(a, k, carry) ==
    IF a = <<>> THEN (IF carry = 0 THEN <<>> ELSE <<carry>>)
    ELSE LET t == a[1] * k + carry
         IN  <<t % Limb>> \o BMulSmall(Tail(a), k, t \div Limb)

RECURSIVE BMulRaw(_, _)
BMulRaw(a, b) ==
    IF b = <<>> THEN <<>>
    ELSE BAdd(BMulSmall(a, b[1], 0), <<0>> \o BMulRaw(a, Tail(b)))

BMul(a, b) == BTrim(BMulRaw(a, b))

\* quotient and remainder of a by a limb-sized k
RECURSIVE BDivSmall(_, _)
BDivSmall(a, k) ==
    IF a = <<>> THEN [q |-> <<>>, r |-> 0]
    ELSE LET hi == BDivSmall(Tail(a), k)
             t  == hi.r * Limb + a[1]
         IN  [q |-> BTrim(<<t \div k>> \o hi.q), r |-> t % k]

RECURSIVE SmallBitLen(_)
SmallBitLen(n) == IF n = 0 THEN 0 ELSE 1 + SmallBitLen(n \div 2)

BitLen(a) ==
    IF a = <<>> THEN 0 ELSE 15 * (Len(a) - 1) + SmallBitLen(a[Len(a)])

BOdd(a) == a # <<>> /\ a[1] % 2 = 1

\* a * 2^s
BShiftLeft(a, s) ==
    IF a = <<>> THEN a
    ELSE BMulSmall([i \in 1..(s \div 15) |-> 0] \o a, 2 ^ (s % 15), 0)

\* a \div 2^s, and whether a non-zero bit was shifted out
BShiftRight(a, s) ==
    LET whole == s \div 15
        kept  == IF whole >= Len(a) THEN <<>> ELSE SubSeq(a, whole + 1, Len(a))
        lost  == \E i \in 1..Len(a) : i <= whole /\ a[i] # 0
        d     == BDivSmall(kept, 2 ^ (s % 15))
    IN  [q |-> d.q, sticky |-> lost \/ d.r # 0]

FZero == [m |-> <<>>, e |-> 0]

\* the float nearest to n * 2^e (plus a positive amount below 2^e when
\* inexact is TRUE), ties to even
FRound(n, e, inexact) ==
    LET bits == BitLen(n)
    IN  IF n = <<>> THEN FZero
        ELSE IF bits <= Precision
        THEN [m |-> BShiftLeft(n, Precision - bits), e |-> e - (Precision - bits)]
        ELSE LET s       == bits - Precision
                 r       == BShiftRight(n, s - 1)
                 half    == BOdd(r.q)
                 m0      == BShiftRight(r.q, 1).q
                 up      == half /\ (r.sticky \/ inexact \/ BOdd(m0))
                 m1      == IF up THEN BAdd(m0, <<1>>) ELSE m0
             IN  IF BitLen(m1) > Precision
                 THEN [m |-> BShiftRight(m1, 1).q, e |-> e + s + 1]
                 ELSE [m |-> m1, e |-> e + s]

\* float(n) for a small natural n
FFromInt(n) == FRound(BFromInt(n), 0, FALSE)

\* a / b for naturals a and b > 0 below Limb (Python's true division)
FDivInt(a, b) ==
    LET d == BDivSmall(BShiftLeft(BFromInt(a), 64), b)
    IN  FRound(d.q, 0 - 64, d.r # 0)

\* x * y
FMul(x, y) == FRound(BMul(x.m, y.m), x.e + y.e, FALSE)

\* x - y for x >= y >= 0
FSub(x, y) ==
    LET e == IF y.m = <<>> THEN x.e
             ELSE IF x.e < y.e THEN x.e ELSE y.e
    IN  FRound(BSub(BShiftLeft(x.m, x.e - e),
                    IF y.m = <<>> THEN <<>> ELSE BShiftLeft(y.m, y.e - e)),
               e, FALSE)

\* calculate_kalshi_fee as the code computes it, in floats:
\*   p = price_cents / 100; fee_rate = 0.07 * p * (1 - p); fee_rate * 100
calculate_kalshi_fee_binary64(cents) ==
    LET p        == FDivInt(cents, 100)
        fee_rate == FMul(FMul(FDivInt(7, 100), p), FSub(FFromInt(1), p))
    IN  FMul(fee_rate, FFromInt(100))

-----------------------------------------------------------------------------
(* fetch_kalshi_btc_markets *)

\* kalshi_api = [ok, markets]: ok is FALSE when the category page request
\* raises; markets are the open markets the series requests return
KalshiRecord(market) ==
    [title |-> market.title, ticker |-> market.ticker,
     yes_ask |-> market.yes_ask, no_ask |-> market.no_ask]

\* the fetch without the except clause of lines 89-92 taking effect
fetch_kalshi_ignoring_failure(api) ==
    [i \in 1..Len(api.markets) |-> KalshiRecord(api.markets[i])]

fetch_kalshi_btc_markets(api) ==
    IF ~api.ok THEN <<>>
    ELSE [i \in 1..Len(api.markets) |-> KalshiRecord(api.markets[i])]

-----------------------------------------------------------------------------
(* fetch_polymarket_btc_markets *)

\* An outcomePrices value is [form, json, elems]:
\*   form "missing"  the key is absent, the default '[]' is parsed
\*   form "str"      a string: json "list" (a JSON list of elems),
\*                   "invalid" (json.loads raises) or "scalar" (valid JSON
\*                   that is no sequence: a number, null)
\*   form "obj"      not a string: json "list" or "scalar"
\* An element is [kind, v]: kind "dec" is a decimal string of v hundredths,
\* kind "bad" is a string float() rejects.

\* the try block of lines 130-136: the sequence, or "scalar"
LoadedPrices(raw) ==
    CASE raw.form = "missing" -> [seq |-> TRUE, elems |-> <<>>]
      [] raw.form = "str" /\ raw.json = "invalid" -> [seq |-> TRUE, elems |-> <<>>]
      [] raw.json = "scalar" -> [seq |-> FALSE, elems |-> <<>>]
      [] OTHER -> [seq |-> TRUE, elems |-> raw.elems]

\* len() of a non-sequence raises TypeError, float() of a non-decimal raises
\* ValueError; only the first two elements are read
PricesRaise(raw) ==
    LET op == LoadedPrices(raw)
    IN  \/ ~op.seq
        \/ Len(op.elems) > 0 /\ op.elems[1].kind = "bad"
        \/ Len(op.elems) > 1 /\ op.elems[2].kind = "bad"

\* float(outcome_prices[0]) if len(outcome_prices) > 0 else None
yes_price(raw) ==
    LET op == LoadedPrices(raw)
    IN  IF Len(op.elems) > 0 THEN Some(op.elems[1].v) ELSE None

\* float(outcome_prices[1]) if len(outcome_prices) > 1 else None
no_price(raw) ==
    LET op == LoadedPrices(raw)
    IN  IF Len(op.elems) > 1 THEN Some(op.elems[2].v) ELSE None

BTC == <<"B", "T", "C">>

BITCOIN == <<"B", "I", "T", "C", "O", "I", "N">>

\* the filter of lines 122-123
IsBtcEvent(event) ==
    \/ Contains(Upper(event.title), BTC)
    \/ Contains(Upper(event.title), BITCOIN)
    \/ Contains(Upper(event.description), BTC)
    \/ Contains(Upper(event.description), BITCOIN)

PolyRecord(event, market) ==
    [event_title |-> event.title, market_id |-> market.id,
     yes_price |-> yes_price(market.outcomePrices),
     no_price |-> no_price(market.outcomePrices)]

\* the records of one event, when nothing raises
EventRecords(event) ==
    IF IsBtcEvent(event)
    THEN [j \in 1..Len(event.markets) |-> PolyRecord(event, event.markets[j])]
    ELSE <<>>

\* an exception reaches the outer except clause of lines 159-161
PolyFetchRaises(api) ==
    \/ ~api.ok
    \/ \E i \in 1..Len(api.events) :
          /\ IsBtcEvent(api.events[i])
          /\ \E j \in 1..Len(api.events[i].markets) :
                PricesRaise(api.events[i].markets[j].outcomePrices)

\* poly_api = [ok, events]: ok is FALSE when the request or response.json()
\* raises
fetch_polymarket_btc_markets(api) ==
    IF PolyFetchRaises(api) THEN <<>>
    ELSE Concat([i \in 1..Len(api.events) |-> EventRecords(api.events[i])])

-----------------------------------------------------------------------------
(* find_arbitrage_opportunities: the two dictionaries *)

\* a dict is the sequence of its [key, val] items in insertion order
KeyIndex(d, key) ==
    IF \E i \in 1..Len(d) : d[i].key = key
    THEN CHOOSE i \in 1..Len(d) : d[i].key = key
    ELSE 0

\* kalshi_dict[key] = market
DictSet(d, key, market) ==
    IF KeyIndex(d, key) = 0
    THEN Append(d, [key |-> key, val |-> market])
    ELSE [d EXCEPT ![KeyIndex(d, key)].val = market]

\* if key not in polymarket_dict: polymarket_dict[key] = []
\* polymarket_dict[key].append(market)
DictAppend(d, key, market) ==
    IF KeyIndex(d, key) = 0
    THEN Append(d, [key |-> key, val |-> <<market>>])
    ELSE [d EXCEPT ![KeyIndex(d, key)].val = Append(@, market)]

RECURSIVE KalshiDictFrom(_, _)
KalshiDictFrom(ms, d) ==
    IF ms = <<>> THEN d
    ELSE KalshiDictFrom(Tail(ms), DictSet(d, NormalKey(Head(ms).title), Head(ms)))

RECURSIVE PolyDictFrom(_, _)
PolyDictFrom(ms, d) ==
    IF ms = <<>> THEN d
    ELSE PolyDictFrom(Tail(ms),
                      DictAppend(d, NormalKey(Head(ms).event_title), Head(ms)))

KalshiDict(ms) == KalshiDictFrom(ms, <<>>)

PolyDict(ms) == PolyDictFrom(ms, <<>>)

\* the three nested loops of lines 226-234: every (kalshi_market, poly_market)
\* the innermost body is entered with, in order
MatchedPairs(kd, pd) ==
    Concat([i \in 1..Len(kd) |->
        Concat([j \in 1..Len(pd) |->
            IF Match(kd[i].key, pd[j].key)
            THEN [m \in 1..Len(pd[j].val) |-> [k |-> kd[i].val, p |-> pd[j].val[m]]]
            ELSE <<>>])])

-----------------------------------------------------------------------------
(* find_arbitrage_opportunities: one pair *)

\* the negation of line 241: not all([...]) skips the pair
AllPriced(k, p) ==
    /\ Truthy(k.yes_ask)
    /\ Truthy(k.no_ask)
    /\ Truthy(p.yes_price)
    /\ Truthy(p.no_price)

\* poly_yes * 100, poly_no * 100: hundredths of a dollar are cents
PolyCents(price) == (price * 100 * Scale) \div 100

KalshiCents(price) == price * Scale

\* (profit / total_cost) * 100 if total_cost > 0 else 0
ProfitPct(profit, total_cost) ==
    IF total_cost > 0 THEN Frac(profit * 100, total_cost) ELSE Frac(0, 1)

Opportunity(strategy, k, p, kalshi_ask, poly_price, is_us) ==
    LET kalshi_cost == KalshiCents(kalshi_ask)
        kalshi_fee == calculate_kalshi_fee(kalshi_ask)
        poly_cost == PolyCents(poly_price)
        poly_fee == calculate_polymarket_fee(poly_cost, is_us)
        total_cost == kalshi_cost + kalshi_fee + poly_cost + poly_fee
        profit == Payout * Scale - total_cost
    IN  [strategy |-> strategy,
         kalshi_market |-> k.title,
         kalshi_ticker |-> k.ticker,
         poly_market |-> p.event_title,
         kalshi_price |-> kalshi_cost,
         kalshi_fee |-> kalshi_fee,
         poly_price |-> poly_cost,
         poly_fee |-> poly_fee,
         total_cost |-> total_cost,
         profit |-> profit,
         profit_pct |-> ProfitPct(profit, total_cost)]

\* Strategy 1: Buy YES on Kalshi, Buy NO on Polymarket
Strategy1(k, p, is_us) ==
    Opportunity(1, k, p, Val(k.yes_ask), Val(p.no_price), is_us)

\* a copy of strategy 1's total in strategy 2's record
Strategy2StaleTotal(k, p, is_us) ==
    [Opportunity(2, k, p, Val(k.no_ask), Val(p.yes_price), is_us)
        EXCEPT !.total_cost = Strategy1(k, p, is_us).total_cost]

\* Strategy 2: Buy NO on Kalshi, Buy YES on Polymarket
Strategy2(k, p, is_us) ==
    Opportunity(2, k, p, Val(k.no_ask), Val(p.yes_price), is_us)

\* both tests on profit_pct_1
PairOpportunitiesSameTest(k, p, min, is_us) ==
    LET s1 == Strategy1(k, p, is_us)
        s2 == Strategy2(k, p, is_us)
    IN  (IF GE(s1.profit_pct, min) THEN <<s1>> ELSE <<>>)
        \o (IF GE(s1.profit_pct, min) THEN <<s2>> ELSE <<>>)

\* lines 269-297: what one priced pair appends
PairOpportunities(k, p, min, is_us) ==
    LET s1 == Strategy1(k, p, is_us)
        s2 == Strategy2(k, p, is_us)
    IN  (IF GE(s1.profit_pct, min) THEN <<s1>> ELSE <<>>)
        \o (IF GE(s2.profit_pct, min) THEN <<s2>> ELSE <<>>)

-----------------------------------------------------------------------------
(* find_arbitrage_opportunities: the sort *)

\* ascending sort, then reversed: equal keys come out in reverse
InsertByProfitReversingTies(opps, acc, i) ==
    LET ahead == {j \in 1..Len(acc) :
                    ~GE(opps[i].profit_pct, opps[acc[j]].profit_pct)}
        n == Cardinality(ahead)
    IN  SubSeq(acc, 1, n) \o <<i>> \o SubSeq(acc, n + 1, Len(acc))

\* the place of item i among the items already sorted: after every item whose
\* profit_pct is greater or equal (list.sort is stable, also with reverse=True)
InsertByProfit(opps, acc, i) ==
    LET ahead == {j \in 1..Len(acc) :
                    GE(opps[acc[j]].profit_pct, opps[i].profit_pct)}
        n == Cardinality(ahead)
    IN  SubSeq(acc, 1, n) \o <<i>> \o SubSeq(acc, n + 1, Len(acc))

RECURSIVE SortFrom(_, _, _)
SortFrom(opps, acc, i) ==
    IF i > Len(opps) THEN acc
    ELSE SortFrom(opps, InsertByProfit(opps, acc, i), i + 1)

\* opportunities.sort(key=lambda x: x['profit_pct'], reverse=True), as the
\* sequence of the old indices in their new order
SortOrder(opps) == SortFrom(opps, <<>>, 1)

-----------------------------------------------------------------------------
(* find_arbitrage_opportunities: the whole call *)

\* min_profit_percent is [kind, n, d]: the number n/d, or (kind "str") a value
\* that is no number, which the comparison of line 269 raises TypeError on
Num(n, d) == [kind |-> "num", n |-> n, d |-> d]

NotANumber == [kind |-> "str", n |-> 0, d |-> 1]

PairId(pair) == <<pair.k.ticker, pair.p.market_id>>

\* lines 300-324: sort and return (raised: the TypeError of line 269 left the
\* function before the sort)
SortAndReturn(km, pm, reached, appended, sorted, raised) ==
    [kalshi_markets |-> km,
     poly_markets |-> pm,
     pairs |-> [i \in 1..Len(reached) |-> PairId(reached[i])],
     order |-> sorted,
     opportunities |-> [i \in 1..Len(sorted) |-> appended[sorted[i]]],
     outcome |-> IF raised THEN "TypeError" ELSE "returned"]

\* lines 226-297 over the matched pairs; priced are the places of the pairs
\* line 241 does not skip.  The first of them compares profit_pct_1 with
\* min_profit_percent, which raises when that is no number.
Analyze(km, pm, all, priced, min, is_us) ==
    IF min.kind # "num" /\ priced # {}
    THEN SortAndReturn(km, pm,
             SubSeq(all, 1, CHOOSE i \in priced : \A j \in priced : i <= j),
             <<>>, <<>>, TRUE)
    ELSE (LET Appended(items) == SortAndReturn(km, pm, all, items, SortOrder(items), FALSE)
          IN  Appended(Concat([i \in 1..Len(all) |->
                  IF i \in priced
                  THEN PairOpportunities(all[i].k, all[i].p, min, is_us)
                  ELSE <<>>])))

\* lines 207-219, then the loops
Organize(km, pm, all, min, is_us) ==
    Analyze(km, pm, all, {i \in 1..Len(all) : AllPriced(all[i].k, all[i].p)},
            min, is_us)

\* line 204: markets = self.fetch_all_markets()
FetchThenFind(km, pm, min, is_us) ==
    Organize(km, pm, MatchedPairs(KalshiDict(km), PolyDict(pm)), min, is_us)

FindArbitrage(kapi, papi, min, is_us) ==
    FetchThenFind(fetch_kalshi_btc_markets(kapi),
                  fetch_polymarket_btc_markets(papi), min, is_us)

-----------------------------------------------------------------------------
(* save_to_json: json.load, list.extend, json.dump                          *)
(*                                                                         *)
(* A value of a market record is a tagged Python value; the text of a file  *)
(* is a sequence of JSON tokens: the brackets and the comma of a list, and  *)
(* one token for an object, holding the literal of each of its keys.        *)

PyNone == [py |-> "None"]

PyInt(n) == [py |-> "int", n |-> n]

\* a float, in hundredths
PyFloat(h) == [py |-> "float", h |-> h]

PyStr(t) == [py |-> "str", s |-> t]

\* json.dump of one value: null, a number with or without a fraction, a string
JsonLiteral(v) ==
    CASE v.py = "None"  -> [json |-> "null"]
      [] v.py = "int"   -> [json |-> "number", point |-> FALSE, digits |-> v.n]
      [] v.py = "float" -> [json |-> "number", point |-> TRUE, digits |-> v.h]
      [] v.py = "str"   -> [json |-> "string", chars |-> v.s]

\* json.load of one literal
PyValue(l) ==
    CASE l.json = "null" -> PyNone
      [] l.json = "number" -> IF l.point THEN PyFloat(l.digits) ELSE PyInt(l.digits)
      [] l.json = "string" -> PyStr(l.chars)

Punct(c) == [tok |-> c]

ObjectToken(d) == [tok |-> "{}", members |-> [k \in DOMAIN d |-> JsonLiteral(d[k])]]

DictOf(t) == [k \in DOMAIN t.members |-> PyValue(t.members[k])]

RECURSIVE DumpItems(_)
DumpItems(l) ==
    IF l = <<>> THEN <<>>
    ELSE IF Len(l) = 1 THEN <<ObjectToken(l[1])>>
    ELSE <<ObjectToken(l[1]), Punct(",")>> \o DumpItems(Tail(l))

\* json.dump(existing_data, f) of a list of records
json_dump(l) == <<Punct("[")>> \o DumpItems(l) \o <<Punct("]")>>

JSONDecodeError == [ok |-> FALSE, list |-> FALSE, value |-> <<>>]

\* the items between the brackets of a list: object, comma, object, ...
RECURSIVE LoadItems(_)
LoadItems(t) ==
    IF t = <<>> \/ t[1].tok # "{}" THEN JSONDecodeError
    ELSE IF Len(t) = 1 THEN [ok |-> TRUE, list |-> TRUE, value |-> <<DictOf(t[1])>>]
    ELSE IF t[2].tok # "," THEN JSONDecodeError
    ELSE LET rest == LoadItems(SubSeq(t, 3, Len(t)))
         IN  IF rest.ok
             THEN [ok |-> TRUE, list |-> TRUE, value |-> <<DictOf(t[1])>> \o rest.value]
             ELSE JSONDecodeError

\* json.load(f): a list of records, one object, or JSONDecodeError
json_load(t) ==
    IF t = <<>> THEN JSONDecodeError
    ELSE IF Len(t) = 1
    THEN IF t[1].tok = "{}"
         THEN [ok |-> TRUE, list |-> FALSE, value |-> <<DictOf(t[1])>>]
         ELSE JSONDecodeError
    ELSE IF t[1].tok = "[" /\ t[Len(t)].tok = "]"
    THEN IF Len(t) = 2
         THEN [ok |-> TRUE, list |-> TRUE, value |-> <<>>]
         ELSE LoadItems(SubSeq(t, 2, Len(t) - 1))
    ELSE JSONDecodeError

Missing == [exists |-> FALSE, text |-> <<>>]

Written(t) == [exists |-> TRUE, text |-> t]

\* open(filename, 'w') before anything is read: the earlier content is lost
save_overwriting(f, markets) == Written(json_dump(markets))

\* save_to_json(markets, filename): the file afterwards.  A file that is not
\* JSON raises JSONDecodeError and one that holds an object raises
\* AttributeError at extend; both reach the outer except before the file is
\* opened for writing.
save_to_json(f, markets) ==
    IF ~f.exists THEN Written(json_dump(<<>> \o markets))
    ELSE LET existing_data == json_load(f.text)
         IN  IF ~existing_data.ok \/ ~existing_data.list THEN f
             ELSE Written(json_dump(existing_data.value \o markets))

-----------------------------------------------------------------------------
(* The inputs *)

Text_BTC_up == <<"B", "T", "C", " ", "u", "p">>

Text_btc_UP_padded == <<" ", "b", "t", "c", " ", "U", "P", " ">>

Text_BTC == <<"B", "T", "C">>

Text_btc_up == <<"b", "t", "c", " ", "u", "p">>

Text_Bitcoin == <<"B", "i", "t", "c", "o", "i", "n">>

Text_ETH == <<"E", "T", "H">>

Text_about_bitcoin == <<"o", "n", " ", "b", "i", "t", "c", "o", "i", "n">>

Dec(v) == [kind |-> "dec", v |-> v]

BadElem == [kind |-> "bad", v |-> 0]

Raw(form, json, elems) == [form |-> form, json |-> json, elems |-> elems]

JsonList(elems) == Raw("str", "list", elems)

\* every shape of an outcomePrices value over the elements E
RawForms(E) ==
    {Raw("missing", "list", <<>>), Raw("str", "invalid", <<>>),
     Raw("str", "scalar", <<>>), Raw("obj", "scalar", <<>>)}
    \cup {Raw(f, "list", es) : f \in {"str", "obj"}, es \in SeqsUpTo(E, MaxPrices)}

\* market ids are unique in a response: the place of the market
WithIds(events) ==
    [i \in 1..Len(events) |->
        [events[i] EXCEPT !.markets =
            [j \in 1..Len(events[i].markets) |->
                [id |-> <<i, j>>, outcomePrices |-> events[i].markets[j]]]]]

\* the events with exactly n markets, each with a heading of H and prices of R
EventsOfSize(H, R, n) ==
    {[title |-> h.title, description |-> h.description, markets |-> ms] :
        h \in H, ms \in [1..n -> R]}

\* the responses with exactly n markets over non-empty events
RECURSIVE ResponsesOfSize(_, _, _)
ResponsesOfSize(H, R, n) ==
    IF n = 0 THEN {<<>>}
    ELSE UNION {{<<e>> \o rest : e \in EventsOfSize(H, R, s),
                                 rest \in ResponsesOfSize(H, R, n - s)} :
                s \in 1..n}

Responses(H, R, max) ==
    {WithIds(r) : r \in UNION {ResponsesOfSize(H, R, n) : n \in 0..max}}

Heading(title, description) == [title |-> title, description |-> description]

\* tickers are unique: the place of the market
WithTickers(ms) ==
    [i \in 1..Len(ms) |->
        [title |-> ms[i].title, ticker |-> i,
         yes_ask |-> ms[i].yes_ask, no_ask |-> ms[i].no_ask]]

KalshiMarket(title, yes_ask, no_ask) ==
    [title |-> title, yes_ask |-> yes_ask, no_ask |-> no_ask]

KalshiPairAsks == {None, Some(0), Some(40)}

PolyPairPrices == RawForms({Dec(0), Dec(55), BadElem})

\* one Kalshi market against one Polymarket market under matching titles:
\* every combination of absent, zero and positive prices, every shape of
\* outcomePrices, either request failing
PairWorlds ==
    {[kalshi |-> [ok |-> kok,
                  markets |-> WithTickers(<<KalshiMarket(Text_BTC_up, ya, na)>>)],
      poly |-> [ok |-> pok,
                events |-> WithIds(<<[title |-> Text_btc_up, description |-> <<>>,
                                      markets |-> <<raw>>]>>)]] :
        kok \in BOOLEAN, pok \in BOOLEAN,
        ya \in KalshiPairAsks, na \in KalshiPairAsks, raw \in PolyPairPrices}

KalshiLists ==
    {WithTickers(ms) :
        ms \in SeqsUpTo({KalshiMarket(Text_BTC_up, Some(40), Some(60)),
                         KalshiMarket(Text_btc_UP_padded, Some(30), Some(60)),
                         KalshiMarket(Text_BTC, Some(40), Some(60))}, MaxKalshi)}

PolyLists ==
    Responses({Heading(Text_btc_up, <<>>), Heading(Text_Bitcoin, <<>>)},
              {JsonList(<<Dec(30), Dec(55)>>), JsonList(<<Dec(55), Dec(30)>>)},
              MaxPoly)

\* lists of fully priced markets under titles that share a key, match by
\* containment or do not match
ListWorlds ==
    {[kalshi |-> [ok |-> TRUE, markets |-> ms],
      poly |-> [ok |-> TRUE, events |-> r]] :
        ms \in KalshiLists, r \in PolyLists}

Worlds == PairWorlds \cup ListWorlds

\* the thresholds a caller passes: the default 1.0, 5.0, a negative one, and a
\* value that is no number
Thresholds == {Num(1, 1), Num(5, 1), Num(0 - 5, 1), NotANumber}

\* what the user types at "Minimum profit % (default 1.0): "
TypedInputs == {[kind |-> "empty", n |-> 0, d |-> 1],
                [kind |-> "num", n |-> 0 - 5, d |-> 1],
                [kind |-> "str", n |-> 0, d |-> 1]}

NoArgs == [called |-> FALSE, min |-> Num(1, 1), use_us_poly_fee |-> FALSE]

-----------------------------------------------------------------------------
(* The state machine *)

Blank ==
    /\ pc = "idle"
    /\ args = NoArgs
    /\ kalshi_markets = <<>>
    /\ poly_markets = <<>>
    /\ pairs = <<>>
    /\ order = <<>>
    /\ opportunities = <<>>
    /\ outcome = "none"
    /\ m_xy = FALSE
    /\ m_yx = FALSE

BlankFee ==
    /\ price_cents = 0
    /\ fee = None
    /\ fee_mirror = None

BlankSave ==
    /\ file = Missing
    /\ file0 = Missing
    /\ saved = <<>>

Init ==
    /\ \E w \in Worlds : kalshi_api = w.kalshi /\ poly_api = w.poly
    /\ x_title = <<>>
    /\ y_title = <<>>
    /\ Blank
    /\ BlankFee
    /\ BlankSave

\* find_arbitrage_opportunities(min_profit_percent, use_us_poly_fee)
find_arbitrage_opportunities(min, is_us) ==
    \E r \in {FindArbitrage(kalshi_api, poly_api, min, is_us)} :
        /\ args' = [called |-> TRUE, min |-> min, use_us_poly_fee |-> is_us]
        /\ kalshi_markets' = r.kalshi_markets
        /\ poly_markets' = r.poly_markets
        /\ pairs' = r.pairs
        /\ order' = r.order
        /\ opportunities' = r.opportunities
        /\ outcome' = r.outcome

\* a caller of the method
CallFindArbitrage ==
    /\ pc = "idle"
    /\ \E min \in Thresholds, is_us \in BOOLEAN :
          find_arbitrage_opportunities(min, is_us)
    /\ pc' = "done"
    /\ UNCHANGED <<kalshi_api, poly_api, x_title, y_title, m_xy, m_yx, feeVars,
                   saveVars>>

\* main(), choice "3": float(min_profit) if min_profit else 1.0
MainChoice3 ==
    /\ pc = "idle"
    /\ \E typed \in TypedInputs, is_us \in BOOLEAN :
          IF typed.kind = "str"
          THEN /\ outcome' = "ValueError"
               /\ UNCHANGED <<args, kalshi_markets, poly_markets, pairs, order,
                              opportunities>>
          ELSE find_arbitrage_opportunities(
                   IF typed.kind = "empty" THEN Num(1, 1) ELSE Num(typed.n, typed.d),
                   is_us)
    /\ pc' = "done"
    /\ UNCHANGED <<kalshi_api, poly_api, x_title, y_title, m_xy, m_yx, feeVars,
                   saveVars>>

Next == CallFindArbitrage \/ MainChoice3

Spec == Init /\ [][Next]_vars

-----------------------------------------------------------------------------
(* fetch_all_markets on its own, over every shape of a Polymarket response *)

FetchHeadings ==
    {Heading(Text_btc_up, <<>>), Heading(Text_ETH, <<>>),
     Heading(Text_ETH, Text_about_bitcoin)}

FetchPrices ==
    {JsonList(<<Dec(30), Dec(55)>>), JsonList(<<Dec(30)>>),
     Raw("str", "invalid", <<>>), JsonList(<<BadElem, Dec(55)>>),
     Raw("obj", "scalar", <<>>)}

FetchWorlds ==
    {[kalshi |-> [ok |-> kok,
                  markets |-> WithTickers(<<KalshiMarket(Text_BTC_up, Some(40), Some(60))>>)],
      poly |-> [ok |-> pok, events |-> r]] :
        kok \in BOOLEAN, pok \in BOOLEAN,
        r \in Responses(FetchHeadings, FetchPrices, MaxPoly)}

InitFetch ==
    /\ \E w \in FetchWorlds : kalshi_api = w.kalshi /\ poly_api = w.poly
    /\ x_title = <<>>
    /\ y_title = <<>>
    /\ Blank
    /\ BlankFee
    /\ BlankSave

\* fetch_all_markets()
FetchAllMarkets ==
    /\ pc = "idle"
    /\ kalshi_markets' = fetch_kalshi_btc_markets(kalshi_api)
    /\ poly_markets' = fetch_polymarket_btc_markets(poly_api)
    /\ pc' = "fetched"
    /\ UNCHANGED <<kalshi_api, poly_api, args, pairs, order, opportunities,
                   outcome, x_title, y_title, m_xy, m_yx, feeVars,
                   saveVars>>

NextFetch == FetchAllMarkets

SpecFetch == InitFetch /\ [][NextFetch]_vars

-----------------------------------------------------------------------------
(* The match test on its own, over every pair of short titles *)

MatchChars == {"a", "B", " "}

MatchTitles == SeqsUpTo(MatchChars, MaxKeyLen)

NoApi == [ok |-> FALSE, markets |-> <<>>, events |-> <<>>]

InitMatch ==
    /\ x_title \in MatchTitles
    /\ y_title \in MatchTitles
    /\ kalshi_api = NoApi
    /\ poly_api = NoApi
    /\ Blank
    /\ BlankFee
    /\ BlankSave

\* line 233 on the keys of lines 213 and 216, with the titles in either role
MatchKeys ==
    /\ pc = "idle"
    /\ m_xy' = Match(NormalKey(x_title), NormalKey(y_title))
    /\ m_yx' = Match(NormalKey(y_title), NormalKey(x_title))
    /\ pc' = "matched"
    /\ UNCHANGED <<kalshi_api, poly_api, args, kalshi_markets, poly_markets,
                   pairs, order, opportunities, outcome, x_title, y_title,
                   feeVars, saveVars>>

NextMatch == MatchKeys

SpecMatch == InitMatch /\ [][NextMatch]_vars

-----------------------------------------------------------------------------
(* calculate_kalshi_fee on its own, over every whole price of the cent     *)
(* scale, each with its mirror price                                       *)

InitFee ==
    /\ price_cents \in 0..100
    /\ fee = None
    /\ fee_mirror = None
    /\ kalshi_api = NoApi
    /\ poly_api = NoApi
    /\ x_title = <<>>
    /\ y_title = <<>>
    /\ Blank
    /\ BlankSave

\* calculate_kalshi_fee(price_cents) and calculate_kalshi_fee(100 - price_cents)
KalshiFees ==
    /\ pc = "idle"
    /\ fee' = Some(calculate_kalshi_fee_binary64(price_cents))
    /\ fee_mirror' = Some(calculate_kalshi_fee_binary64(100 - price_cents))
    /\ pc' = "priced"
    /\ UNCHANGED <<kalshi_api, poly_api, args, kalshi_markets, poly_markets,
                   pairs, order, opportunities, outcome, x_title, y_title,
                   m_xy, m_yx, price_cents, saveVars>>

NextFee == KalshiFees

SpecFee == InitFee /\ [][NextFee]_vars

-----------------------------------------------------------------------------
(* save_to_json on one file, called directly and from the polling loop *)

KalshiSaved ==
    [exchange |-> PyStr("Kalshi"), ticker |-> PyStr("KXBTC-1"),
     yes_ask |-> PyInt(40), no_ask |-> PyNone]

PolySaved ==
    [exchange |-> PyStr("Polymarket"), market_id |-> PyStr("m1"),
     yes_price |-> PyFloat(30), no_price |-> PyNone]

\* what fetch_all_markets returns in one cycle
Batches ==
    {<<>>, <<KalshiSaved>>, <<PolySaved>>, <<KalshiSaved, PolySaved>>,
     <<PolySaved, KalshiSaved>>}

\* the file before the first call: missing; a list of records; empty; cut
\* off inside a list; one object
Files ==
    {Missing, Written(json_dump(<<>>)), Written(json_dump(<<PolySaved>>)),
     Written(json_dump(<<KalshiSaved, PolySaved>>)),
     Written(<<>>),
     Written(<<Punct("["), ObjectToken(KalshiSaved), Punct(",")>>),
     Written(<<ObjectToken(KalshiSaved)>>)}

InitSave ==
    /\ file0 \in Files
    /\ file = file0
    /\ saved = <<>>
    /\ kalshi_api = NoApi
    /\ poly_api = NoApi
    /\ x_title = <<>>
    /\ y_title = <<>>
    /\ Blank
    /\ BlankFee

Save(markets) ==
    /\ file' = save_to_json(file, markets)
    /\ saved' = Append(saved, markets)

\* a caller of save_to_json(markets)
CallSaveToJson ==
    /\ Len(saved) < MaxSaves
    /\ \E markets \in Batches : Save(markets)
    /\ UNCHANGED <<pc, kalshi_api, poly_api, args, kalshi_markets, poly_markets,
                   pairs, order, opportunities, outcome, x_title, y_title,
                   m_xy, m_yx, feeVars, file0>>

\* one cycle of run_continuous, or run_once:
\*   markets = self.fetch_all_markets(); if markets: self.save_to_json(markets)
RunCycle ==
    /\ Len(saved) < MaxSaves
    /\ \E markets \in Batches :
          IF markets # <<>> THEN Save(markets) ELSE UNCHANGED <<file, saved>>
    /\ UNCHANGED <<pc, kalshi_api, poly_api, args, kalshi_markets, poly_markets,
                   pairs, order, opportunities, outcome, x_title, y_title,
                   m_xy, m_yx, feeVars, file0>>

NextSave == CallSaveToJson \/ RunCycle

SpecSave == InitSave /\ [][NextSave]_vars

-----------------------------------------------------------------------------
(* Vocabulary of the properties *)

Present(o) == o # None

\* find_arbitrage_opportunities was called and returned its list
Returned == pc = "done" /\ args.called /\ outcome = "returned"

\* ... with a number as min_profit_percent
ReturnedForNumber == Returned /\ args.min.kind = "num"

KalshiOf(ticker) == CHOOSE k \in Range(kalshi_markets) : k.ticker = ticker

PolyOf(id) == CHOOSE q \in Range(poly_markets) : q.market_id = id

\* the i-th pair the loops reached
PairK(i) == KalshiOf(pairs[i][1])

PairP(i) == PolyOf(pairs[i][2])

\* the leg prices of a direction: 1 is Kalshi yes + Polymarket no, 2 the mirror
KalshiLeg(dir, k) == IF dir = 1 THEN k.yes_ask ELSE k.no_ask

PolyLeg(dir, q) == IF dir = 1 THEN q.no_price ELSE q.yes_price

LegsPresent(dir, k, q) == Present(KalshiLeg(dir, k)) /\ Present(PolyLeg(dir, q))

LegsAbsent(dir, k, q) == ~LegsPresent(dir, k, q)

LegsPositive(dir, k, q) == Truthy(KalshiLeg(dir, k)) /\ Truthy(PolyLeg(dir, q))

\* the direction's record as lines 248-266 compute it from its two legs
Direction(dir, k, q) ==
    Opportunity(dir, k, q, Val(KalshiLeg(dir, k)), Val(PolyLeg(dir, q)),
                args.use_us_poly_fee)

MeetsThreshold(dir, k, q) == GE(Direction(dir, k, q).profit_pct, args.min)

\* the returned list holds the record of that direction of that pair
Reported(dir, k, q) ==
    \E i \in 1..Len(opportunities) : opportunities[i] = Direction(dir, k, q)

Other(dir) == 3 - dir

\* the list in the order it was appended, before the sort
Emitted ==
    [a \in 1..Len(order) |->
        opportunities[CHOOSE i \in 1..Len(order) : order[i] = a]]

-----------------------------------------------------------------------------
(* C1 *)

\* C1: for every matched pair, when only the prices of one direction are
\* absent, the other direction (its two prices present and positive) is still
\* evaluated: it is reported when its profit_pct meets the threshold.
C1_DirectionsSkippedIndependently ==
    ReturnedForNumber =>
        \A i \in 1..Len(pairs) : \A dir \in {1, 2} :
            (/\ LegsAbsent(Other(dir), PairK(i), PairP(i))
             /\ LegsPositive(dir, PairK(i), PairP(i))
             /\ MeetsThreshold(dir, PairK(i), PairP(i)))
            => Reported(dir, PairK(i), PairP(i))

-----------------------------------------------------------------------------
(* C2 *)

SomeZero(k, q) ==
    Some(0) \in {k.yes_ask, k.no_ask, q.yes_price, q.no_price}

\* C2: a pair whose four prices are all present, one or more of them 0, is
\* evaluated as any fully priced pair: each direction is reported exactly when
\* its profit_pct meets the threshold.
C2_ZeroIsNotMissing ==
    ReturnedForNumber =>
        \A i \in 1..Len(pairs) : \A dir \in {1, 2} :
            (/\ LegsPresent(1, PairK(i), PairP(i))
             /\ LegsPresent(2, PairK(i), PairP(i))
             /\ SomeZero(PairK(i), PairP(i)))
            => (Reported(dir, PairK(i), PairP(i))
                    <=> MeetsThreshold(dir, PairK(i), PairP(i)))

-----------------------------------------------------------------------------
(* C3 *)

\* C3: every Kalshi record and Polymarket record of the fetched lists whose
\* keys match are evaluated as a pair of their own.
C3_EveryCombinationEvaluated ==
    Returned =>
        \A a \in 1..Len(kalshi_markets) : \A b \in 1..Len(poly_markets) :
            Match(NormalKey(kalshi_markets[a].title),
                  NormalKey(poly_markets[b].event_title))
            => <<kalshi_markets[a].ticker, poly_markets[b].market_id>> \in Range(pairs)

-----------------------------------------------------------------------------
(* C4 *)

\* the markets of the response the keyword filter retains, as <<i, j>>
RetainedMarkets ==
    {id \in UNION {{<<i, j>> : j \in 1..Len(poly_api.events[i].markets)} :
                      i \in 1..Len(poly_api.events)} :
        IsBtcEvent(poly_api.events[id[1]])}

RawOf(id) == poly_api.events[id[1]].markets[id[2]].outcomePrices

\* invalid JSON, a yes or no element that is no decimal string, or no sequence
Unparsable(raw) ==
    \/ raw.form = "str" /\ raw.json = "invalid"
    \/ raw.json = "scalar"
    \/ raw.json = "list" /\ \E n \in 1..2 : n <= Len(raw.elems) /\ raw.elems[n].kind = "bad"

HasRecord(id) == \E b \in 1..Len(poly_markets) : poly_markets[b].market_id = id

RecordOf(id) == CHOOSE r \in Range(poly_markets) : r.market_id = id

\* C4: when the response arrived and the outcome prices of a market of a
\* retained event cannot be parsed, that market has a record with an absent
\* price, and every other market of every retained event has its record too.
C4_UnparsablePricesKeepTheRest ==
    (/\ pc = "fetched"
     /\ poly_api.ok
     /\ \E id \in RetainedMarkets : Unparsable(RawOf(id))
     /\ \E id \in RetainedMarkets : ~Unparsable(RawOf(id))) =>
        \A id \in RetainedMarkets :
            /\ HasRecord(id)
            /\ Unparsable(RawOf(id)) =>
                   (RecordOf(id).yes_price = None \/ RecordOf(id).no_price = None)

-----------------------------------------------------------------------------
(* C5 *)

\* the directions line 241 lets through, as <<place of the pair, direction>>
EvaluatedDirections ==
    {e \in (1..Len(pairs)) \X {1, 2} : AllPriced(PairK(e[1]), PairP(e[1]))}

\* Kalshi yes-ask 40 with Polymarket no-price 0.55 under the reduced fee
IsScenario(e) ==
    /\ e[2] = 1
    /\ PairK(e[1]).yes_ask = Some(40)
    /\ PairP(e[1]).no_price = Some(55)
    /\ args.use_us_poly_fee

\* 96.735 cents
ScenarioCost == 96 * Scale + 7350

\* C5: every evaluated direction is in the returned list exactly when its
\* profit_pct >= min_profit_percent, and the list holds nothing else; the
\* scenario costs 96.735, gains between 3.375% and 3.377%, and is reported at
\* threshold 1.0 but not at 5.0.
C5_ReportedIffThresholdMet ==
    ReturnedForNumber =>
        /\ \A e \in EvaluatedDirections :
              Reported(e[2], PairK(e[1]), PairP(e[1]))
                  <=> MeetsThreshold(e[2], PairK(e[1]), PairP(e[1]))
        /\ Len(opportunities) =
              Cardinality({e \in EvaluatedDirections :
                              MeetsThreshold(e[2], PairK(e[1]), PairP(e[1]))})
        /\ \A e \in EvaluatedDirections :
              IsScenario(e) =>
                  /\ Direction(1, PairK(e[1]), PairP(e[1])).total_cost = ScenarioCost
                  /\ GE(Direction(1, PairK(e[1]), PairP(e[1])).profit_pct,
                        Frac(3375, 1000))
                  /\ GE(Frac(3377, 1000),
                        Direction(1, PairK(e[1]), PairP(e[1])).profit_pct)
                  /\ args.min = Num(1, 1) => Reported(1, PairK(e[1]), PairP(e[1]))
                  /\ args.min = Num(5, 1) => ~Reported(1, PairK(e[1]), PairP(e[1]))

\* the scenario was evaluated under threshold 5.0 and is not in the list
C5_Witness ==
    /\ ReturnedForNumber
    /\ args.min = Num(5, 1)
    /\ \E e \in EvaluatedDirections :
          IsScenario(e) /\ ~Reported(1, PairK(e[1]), PairP(e[1]))
    /\ \E e \in EvaluatedDirections : Reported(e[2], PairK(e[1]), PairP(e[1]))

-----------------------------------------------------------------------------
(* C6 *)

\* C6: every returned opportunity has profit + total_cost = 100 cents, its
\* total_cost is the sum of its own four price and fee fields, and its fees
\* are the fees of its own two prices.
C6_PayoutInvariant ==
    Returned =>
        \A i \in 1..Len(opportunities) :
            LET o == opportunities[i]
            IN  /\ o.profit + o.total_cost = Payout * Scale
                /\ o.total_cost = o.kalshi_price + o.kalshi_fee
                                      + o.poly_price + o.poly_fee
                /\ o.kalshi_fee = calculate_kalshi_fee(o.kalshi_price \div Scale)
                /\ o.poly_fee = calculate_polymarket_fee(o.poly_price,
                                                         args.use_us_poly_fee)

\* both directions of one pair were returned, with different totals
C6_Witness ==
    /\ Returned
    /\ \E i, j \in 1..Len(opportunities) :
          /\ opportunities[i].strategy = 1
          /\ opportunities[j].strategy = 2
          /\ opportunities[i].kalshi_ticker = opportunities[j].kalshi_ticker
          /\ opportunities[i].total_cost # opportunities[j].total_cost

-----------------------------------------------------------------------------
(* C7 *)

\* what the evaluator appends: pair after pair in the order the loops reach
\* them, direction 1 before direction 2
EmissionOrder ==
    Concat([n \in 1..(2 * Len(pairs)) |->
        LET i == (n + 1) \div 2
            dir == 2 - (n % 2)
        IN  IF AllPriced(PairK(i), PairP(i)) /\ MeetsThreshold(dir, PairK(i), PairP(i))
            THEN <<Direction(dir, PairK(i), PairP(i))>>
            ELSE <<>>])

\* C7: the returned list is the appended list reordered, non-increasing in
\* profit_pct, and two opportunities of equal profit_pct are in the order
\* they were appended in; the appended order is the pair iteration order with
\* direction 1 before direction 2.
C7_SortedStable ==
    ReturnedForNumber =>
        /\ Range(order) = 1..Len(opportunities)
        /\ Len(order) = Len(opportunities)
        /\ Emitted = EmissionOrder
        /\ \A i, j \in 1..Len(opportunities) :
              i < j =>
                  /\ GE(opportunities[i].profit_pct, opportunities[j].profit_pct)
                  /\ SameFrac(opportunities[i].profit_pct, opportunities[j].profit_pct)
                         => order[i] < order[j]

\* the sort moved an opportunity, and two of the list have equal profit_pct
C7_Witness ==
    /\ ReturnedForNumber
    /\ \E i \in 1..Len(order) : order[i] # i
    /\ \E i, j \in 1..Len(opportunities) :
          /\ i < j
          /\ SameFrac(opportunities[i].profit_pct, opportunities[j].profit_pct)
          /\ opportunities[i] # opportunities[j]

-----------------------------------------------------------------------------
(* C8 *)

\* a percentage: a number from 0 to 100
ValidThreshold(min) ==
    /\ min.kind = "num"
    /\ GE(min, Frac(0, 1))
    /\ GE(Frac(100, 1), min)

\* C8: a call with a min_profit_percent that is no number or out of range
\* ends in an error before any pair is reached, and returns no list.
C8_InvalidThresholdRejected ==
    (pc = "done" /\ args.called /\ ~ValidThreshold(args.min)) =>
        (outcome # "returned" /\ pairs = <<>>)

-----------------------------------------------------------------------------
(* C9 *)

\* a venue's fetch failed, or it returned no market
SuppliesNothing ==
    \/ ~kalshi_api.ok
    \/ PolyFetchRaises(poly_api)
    \/ kalshi_markets = <<>>
    \/ poly_markets = <<>>

-----------------------------------------------------------------------------
(* C10 *)

\* C10: the match test gives the same answer with the two keys exchanged.
C10_MatchSymmetric ==
    pc = "matched" => (m_xy <=> m_yx)

\* two keys matched because the first is inside the second, which is longer
C10_Witness ==
    /\ pc = "matched"
    /\ m_xy
    /\ NormalKey(x_title) # <<>>
    /\ Len(NormalKey(x_title)) < Len(NormalKey(y_title))
    /\ Cardinality(Words(NormalKey(x_title)) \cap Words(NormalKey(y_title)))
           < MinSharedWords

-----------------------------------------------------------------------------
(* C11 *)

\* C11: for every price p of 0..100, calculate_kalshi_fee(p) equals
\* calculate_kalshi_fee(100 - p), and the fee at 0 and at 100 is 0.
C11_FeeSymmetric ==
    pc = "priced" =>
        /\ fee = fee_mirror
        /\ price_cents \in {0, 100} => fee = Some(FZero)

-----------------------------------------------------------------------------
(* C12 *)

\* the file holds a JSON list
HoldsList(f) == f.exists /\ json_load(f.text).ok /\ json_load(f.text).list

\* the file cannot be read as JSON
NotJson(f) == f.exists /\ ~json_load(f.text).ok

\* the records of a missing file or of one that holds a list
Records(f) == IF f.exists THEN json_load(f.text).value ELSE <<>>

\* C12: starting from a missing file or a file holding a JSON list, after any
\* sequence of save_to_json calls the file holds the records it started with
\* followed by every saved list, in call order; a file that cannot be read as
\* JSON is left as it was.
C12_SavesAppend ==
    /\ (~file0.exists \/ HoldsList(file0)) =>
          IF saved = <<>> THEN file = file0
          ELSE /\ HoldsList(file)
               /\ Records(file) = Records(file0) \o Concat(saved)
    /\ NotJson(file0) => file = file0

\* two different non-empty lists were saved to a file that held records
C12_Witness ==
    /\ HoldsList(file0)
    /\ Records(file0) # <<>>
    /\ Len(saved) >= 2
    /\ saved[1] # <<>>
    /\ saved[2] # <<>>
    /\ saved[1] # saved[2]
    /\ Len(Records(file)) > Len(Records(file0)) + Len(saved[1])

=============================================================================
